---- MODULE Spec2Model ----
(***************************************************************************)
(* A model of the coherence checker of a-mir-formality and of the parts   *)
(* of the proof engine it rests on:                                        *)
(*   - Variable (formality-types/src/grammar/ty.rs),                       *)
(*   - the TransitiveReachability judgment (judgment/test_reachable.rs),   *)
(*   - prove_wc_list (formality-prove/src/prove/prove_wc_list.rs),         *)
(*   - check_coherence, orphan_check, overlap_check (coherence.rs) and     *)
(*     check_trait, check_associated_ty (traits.rs).                       *)
(* Each part is a state machine of its own over its own variables; the     *)
(* variables of the other parts stay at their idle values.                 *)
(***************************************************************************)
EXTENDS Integers, Sequences, FiniteSets, TLC

VARIABLES
    variable, var_op, var_arg, var_ret,         \* Variable operations
    edges, start, table, reach_pc, rounds,      \* TransitiveReachability
    pw_decls, pw_env, pw_assumptions, pw_goal,  \* a call of prove_wc_list
    pw_pc, pw_out,
    crates, current,                            \* the program and the crate checked
    coh_pc, coh_i, coh_result, coh_log,         \* check_coherence
    asserted, trait_result, first_verdict

var_vars == <<variable, var_op, var_arg, var_ret>>
reach_vars == <<edges, start, table, reach_pc, rounds>>
prove_vars == <<pw_decls, pw_env, pw_assumptions, pw_goal, pw_pc, pw_out>>
coh_vars == <<crates, current, coh_pc, coh_i, coh_result, coh_log,
              asserted, trait_result, first_verdict>>
vars == <<var_vars, reach_vars, prove_vars, coh_vars>>

\* Option<T> is a sequence of length at most one.
None == << >>
Some(x) == <<x>>

(***************************************************************************)
(* Variable, BoundVar, DebruijnIndex, VarIndex (ty.rs)                     *)
(***************************************************************************)
MaxUniverse == 2
MaxVarIndex == 3
MaxDebruijn == 3

Universe(i) == [index |-> i]
DebruijnIndex(i) == [index |-> i]
VarIndex(i) == [index |-> i]

PlaceholderVar(u, i) == [tag |-> "PlaceholderVar", universe |-> Universe(u), index |-> i]
InferenceVar(i) == [tag |-> "InferenceVar", index |-> i]
BoundVar(db, vi) == [tag |-> "BoundVar", debruijn |-> db, var_index |-> vi]

Variables ==
    {PlaceholderVar(u, i) : u \in 0 .. MaxUniverse, i \in 0 .. MaxVarIndex}
    \cup {InferenceVar(i) : i \in 0 .. MaxVarIndex}
    \cup {BoundVar(None, VarIndex(i)) : i \in 0 .. MaxVarIndex}
    \cup {BoundVar(Some(DebruijnIndex(d)), VarIndex(i)) :
            d \in 0 .. MaxDebruijn, i \in 0 .. MaxVarIndex}

\* A slip in DebruijnIndex::shift_in: two levels at once.
DebruijnIndex_shift_in_twice(db) == DebruijnIndex(db.index + 2)

DebruijnIndex_shift_in(db) == DebruijnIndex(db.index + 1)

DebruijnIndex_shift_out(db) ==
    IF db.index > 0 THEN Some(DebruijnIndex(db.index - 1)) ELSE None

shift_in(v) ==
    IF v.tag = "BoundVar" /\ v.debruijn # None
    THEN BoundVar(Some(DebruijnIndex_shift_in(v.debruijn[1])), v.var_index)
    ELSE v

shift_out(v) ==
    IF v.tag = "BoundVar" /\ v.debruijn # None
    THEN LET db1 == DebruijnIndex_shift_out(v.debruijn[1])
         IN  IF db1 = None THEN None ELSE Some(BoundVar(Some(db1[1]), v.var_index))
    ELSE Some(v)

is_free(v) ==
    CASE v.tag \in {"PlaceholderVar", "InferenceVar"} -> TRUE
      [] v.tag = "BoundVar" -> FALSE

VarIdle == /\ variable = InferenceVar(0)
           /\ var_op = "idle"
           /\ var_arg = InferenceVar(0)
           /\ var_ret = None

\* var_arg is the receiver of the last call, variable the variable now held.
VarInit == /\ variable \in Variables
           /\ var_op = "new"
           /\ var_arg = variable
           /\ var_ret = None

CallIsFree ==
    /\ var_op' = "is_free"
    /\ var_arg' = variable
    /\ var_ret' = Some(is_free(variable))
    /\ UNCHANGED <<variable, reach_vars, prove_vars, coh_vars>>

CallShiftIn ==
    /\ shift_in(variable) \in Variables
    /\ var_op' = "shift_in"
    /\ var_arg' = variable
    /\ var_ret' = Some(shift_in(variable))
    /\ variable' = shift_in(variable)
    /\ UNCHANGED <<reach_vars, prove_vars, coh_vars>>

CallShiftOut ==
    /\ var_op' = "shift_out"
    /\ var_arg' = variable
    /\ var_ret' = shift_out(variable)
    /\ variable' = IF shift_out(variable) = None THEN variable ELSE shift_out(variable)[1]
    /\ UNCHANGED <<reach_vars, prove_vars, coh_vars>>

VarNext == CallIsFree \/ CallShiftIn \/ CallShiftOut

(***************************************************************************)
(* Graph and the TransitiveReachability judgment (test_reachable.rs)       *)
(***************************************************************************)
MaxNode == 3
MaxEdges == 4

Nodes == 0 .. MaxNode

\* Graph { edges: Vec<(u32, u32)> }: every edge list of at most MaxEdges edges.
RECURSIVE SeqsUpTo(_, _)
SeqsUpTo(S, n) ==
    IF n = 0 THEN {<< >>}
    ELSE LET shorter == SeqsUpTo(S, n - 1)
         IN  shorter \cup {Append(q, x) : q \in {r \in shorter : Len(r) = n - 1}, x \in S}

Graphs == SeqsUpTo(Nodes \X Nodes, MaxEdges)

Range(q) == {q[i] : i \in 1 .. Len(q)}

\* A slip in successors: the edges are matched on their target.
successors_by_target(g, n) ==
    LET hits == SelectSeq(g, LAMBDA e : e[2] = n)
    IN  [i \in 1 .. Len(hits) |-> hits[i][1]]

\* Graph::successors: the targets of the edges that leave n, in edge order.
successors(g, n) ==
    LET hits == SelectSeq(g, LAMBDA e : e[1] = n)
    IN  [i \in 1 .. Len(hits) |-> hits[i][2]]

\* Rule 1: (graph.successors(start) => s) |- TransitiveReachability(graph, start) => s
RuleSuccessor(g, a) == Range(successors(g, a))

\* Rule 2: TransitiveReachability(graph, a) => b, TransitiveReachability(graph, b) => c
\*         |- TransitiveReachability(graph, a) => c
\* tbl holds the results found so far for the recursive judgment calls.
RuleTransitive(tbl, a) == UNION {tbl[b] : b \in tbl[a]}

\* One evaluation of the judgment on every input: every rule is tried and the
\* outputs of every completed rule instance are collected into a set.
JudgmentRound(g, tbl) ==
    [a \in Nodes |-> RuleSuccessor(g, a) \cup RuleTransitive(tbl, a)]

ReachIdle == /\ edges = << >>
             /\ start = 0
             /\ table = [n \in Nodes |-> {}]
             /\ reach_pc = "idle"
             /\ rounds = 0

ReachInit == /\ edges \in Graphs
             /\ start \in Nodes
             /\ table = [n \in Nodes |-> {}]
             /\ reach_pc = "eval"
             /\ rounds = 0

\* The recursive judgment is evaluated to its fixed point: a round that finds a
\* new output is followed by another one.
EvalRound ==
    /\ reach_pc = "eval"
    /\ JudgmentRound(edges, table) # table
    /\ table' = JudgmentRound(edges, table)
    /\ rounds' = rounds + 1
    /\ UNCHANGED <<edges, start, reach_pc, var_vars, prove_vars, coh_vars>>

\* TransitiveReachability(graph, start).apply() returns the set found for start.
EvalReturn ==
    /\ reach_pc = "eval"
    /\ JudgmentRound(edges, table) = table
    /\ reach_pc' = "done"
    /\ UNCHANGED <<edges, start, table, rounds, var_vars, prove_vars, coh_vars>>

ReachNext == EvalRound \/ EvalReturn

judgment_result == table[start]

(***************************************************************************)
(* Terms: parameters, where-clauses, binders (grammar/ty.rs)               *)
(***************************************************************************)
\* RigidTy { name: RigidName::ScalarId(..), parameters: [] }
RigidTy(name) == [tag |-> "RigidTy", name |-> name]
U32 == RigidTy("U32")
Bool == RigidTy("Bool")

\* The inner-most bound variable number i of a binder.
Bound0(i) == BoundVar(Some(DebruijnIndex(0)), VarIndex(i))
\* A variable of the binder one level further out.
Bound1(i) == BoundVar(Some(DebruijnIndex(1)), VarIndex(i))

\* Wc: the goals and assumptions of the solver.
Eq(a, b) == [tag |-> "Eq", parameters |-> <<a, b>>]
IsImplemented(t, ps) == [tag |-> "IsImplemented", trait_id |-> t, parameters |-> ps]
NotImplemented(t, ps) == [tag |-> "NotImplemented", trait_id |-> t, parameters |-> ps]
IsLocal(t, ps) == [tag |-> "IsLocal", trait_id |-> t, parameters |-> ps]
WellFormedTraitRef(t, ps) == [tag |-> "WellFormedTraitRef", trait_id |-> t, parameters |-> ps]

IsVariable(p) == p.tag \in {"PlaceholderVar", "InferenceVar", "BoundVar"}

\* The free variables of a list of where-clauses (Variable::is_free decides).
FreeVariables(wcs) ==
    {p \in UNION {Range(wcs[i].parameters) : i \in 1 .. Len(wcs)} :
        IsVariable(p) /\ is_free(p)}

\* Substitution { map: Map<Variable, Parameter> }: a function on its keys.
Substitution_default == [v \in {} |-> v]

SubstParameter(map, p) == IF p \in DOMAIN map THEN map[p] ELSE p

\* Substitution::apply on a where-clause and on a list of them.
Substitution_apply_wc(map, wc) ==
    [wc EXCEPT !.parameters = [i \in 1 .. Len(@) |-> SubstParameter(map, @[i])]]

Substitution_apply(map, wcs) ==
    [i \in 1 .. Len(wcs) |-> Substitution_apply_wc(map, wcs[i])]

\* s1 followed by s2.
Substitution_compose(s1, s2) ==
    [v \in DOMAIN s1 \cup DOMAIN s2 |->
        IF v \in DOMAIN s1 THEN SubstParameter(s2, s1[v]) ELSE s2[v]]

\* Binder<T>: the kinds of the variables it binds and the term under it.
Binder(kinds, term) == [kinds |-> kinds, term |-> term]

\* The map that opens a binder found `depth` binders down with `fresh`.
OpenMap(depth, fresh) ==
    [v \in {BoundVar(Some(DebruijnIndex(depth)), VarIndex(i - 1)) : i \in 1 .. Len(fresh)} |->
        fresh[v.var_index.index + 1]]

(***************************************************************************)
(* Env and Constraints (spec sections 3 and 4.3)                           *)
(***************************************************************************)
\* Env: the maximum universe, the live variables with their universes, and
\* the coherence-mode flag.
Env_default == [universe |-> 0, variables |-> {}, coherence_mode |-> FALSE]

with_coherence_mode(env, b) == [env EXCEPT !.coherence_mode = b]

EnvVariables(env) == {e.var : e \in env.variables}

UniverseOf(env, v) ==
    IF v.tag = "PlaceholderVar" THEN v.universe.index
    ELSE IF v.tag = "InferenceVar" /\ v \in EnvVariables(env)
         THEN (CHOOSE e \in env.variables : e.var = v).universe
         ELSE 0

\* env.encloses(term): every free variable of the term is live in env.
encloses(env, wcs) == FreeVariables(wcs) \subseteq EnvVariables(env)

\* The placeholders that open `n` bound variables in a freshly bumped universe.
UniversalVars(env, n) == [i \in 1 .. n |-> PlaceholderVar(env.universe + 1, i - 1)]

AddUniversal(env, n) ==
    [env EXCEPT !.universe = @ + 1,
                !.variables = @ \cup {[var |-> UniversalVars(env, n)[i], universe |-> env.universe + 1] :
                                        i \in 1 .. n}]

NumInference(env) == Cardinality({e \in env.variables : e.var.tag = "InferenceVar"})

\* The inference variables that open `n` bound variables in universe u.
ExistentialVars(env, n) == [i \in 1 .. n |-> InferenceVar(NumInference(env) + i - 1)]

AddExistential(env, n, u) ==
    [env EXCEPT !.variables = @ \cup {[var |-> ExistentialVars(env, n)[i], universe |-> u] :
                                        i \in 1 .. n}]

\* Constraints: an Env, whether the result is known to hold, and what was learned.
Constraints(env, known_true, substitution) ==
    [env |-> env, known_true |-> known_true, substitution |-> substitution]

Constraints_none(env) == Constraints(env, TRUE, Substitution_default)

\* The solver's answer: its result set, and whether every entry assertion held
\* (an assertion that fails is a panic, which ends the whole check).
Results(cs) == [ok |-> TRUE, cs |-> cs]
Panic == [ok |-> FALSE, cs |-> {}]
JoinResults(rs) == [ok |-> \A r \in rs : r.ok, cs |-> UNION {r.cs : r \in rs}]

(***************************************************************************)
(* The where-clause solver                                                 *)
(***************************************************************************)
Wcs_all_eq(as, bs) == [i \in 1 .. Len(as) |-> Eq(as[i], bs[i])]

\* Syntactic unification of two parameters; an inference variable of universe j
\* is never bound to a placeholder of a universe above j.
prove_eq(env, a, b) ==
    LET bind(x, p) ==
            IF p.tag = "PlaceholderVar" /\ UniverseOf(env, p) > UniverseOf(env, x)
            THEN {}
            ELSE {Constraints(env, TRUE, [v \in {x} |-> p])}
    IN  IF a = b THEN {Constraints_none(env)}
        ELSE IF a.tag = "InferenceVar" THEN bind(a, b)
        ELSE IF b.tag = "InferenceVar" THEN bind(b, a)
        ELSE {}

RECURSIVE prove_wc_list(_, _, _, _), prove_wc(_, _, _, _), prove_after(_, _, _, _)

\* "Prove goal A then, under A's learned substitution, prove goal B": the
\* substitution of c is applied to the assumptions and to the remaining goals,
\* they are proved in c's Env, and the two results are composed.
prove_after(decls, c, assumptions, goal) ==
    LET r == prove_wc_list(decls, c.env,
                           Substitution_apply(c.substitution, assumptions),
                           Substitution_apply(c.substitution, goal))
    IN  [ok |-> r.ok,
         cs |-> {Constraints(c2.env, c.known_true /\ c2.known_true,
                             Substitution_compose(c.substitution, c2.substitution)) :
                    c2 \in r.cs}]

\* Rule "none" answers with a fresh Env instead of the caller's.
prove_wc_list_fresh_env(decls, env, assumptions, goal) ==
    IF ~encloses(env, assumptions \o goal) THEN Panic
    ELSE IF goal = << >> THEN Results({Constraints_none(Env_default)})
    ELSE LET r0 == prove_wc(decls, env, assumptions, Head(goal))
             rs == {prove_after(decls, c, assumptions, Tail(goal)) : c \in r0.cs}
         IN  JoinResults({[ok |-> r0.ok, cs |-> {}]} \cup rs)

\* The remaining goals are proved in the Env of the call, without what the
\* first goal taught.
prove_wc_list_forgetful(decls, env, assumptions, goal) ==
    IF ~encloses(env, assumptions \o goal) THEN Panic
    ELSE IF goal = << >> THEN Results({Constraints_none(env)})
    ELSE LET r0 == prove_wc(decls, env, assumptions, Head(goal))
             rs == {prove_wc_list(decls, env, assumptions, Tail(goal)) : c \in r0.cs}
         IN  JoinResults({[ok |-> r0.ok, cs |-> {}]} \cup rs)

\* judgment_fn! prove_wc_list: the entry assertion, rule "none", rule "some".
prove_wc_list(decls, env, assumptions, goal) ==
    IF ~encloses(env, assumptions \o goal) THEN Panic
    ELSE IF goal = << >> THEN Results({Constraints_none(env)})
    ELSE LET wc0 == Head(goal)
             wcs1 == Tail(goal)
             r0 == prove_wc(decls, env, assumptions, wc0)
             rs == {prove_after(decls, c, assumptions, wcs1) : c \in r0.cs}
         IN  JoinResults({[ok |-> r0.ok, cs |-> {}]} \cup rs)

\* The rules for a single goal.
prove_wc(decls, env, assumptions, goal) ==
    LET \* an assumption with the goal's predicate, once its parameters are equated
        via_assumption ==
            {prove_wc_list(decls, env, assumptions,
                           Wcs_all_eq(goal.parameters, assumptions[i].parameters)) :
                i \in {j \in 1 .. Len(assumptions) :
                        /\ goal.tag # "Eq"
                        /\ assumptions[j].tag = goal.tag
                        /\ assumptions[j].trait_id = goal.trait_id}}
        \* an equality that is assumed, in either direction
        eq_assumed ==
            IF /\ goal.tag = "Eq"
               /\ \E i \in 1 .. Len(assumptions) :
                    /\ assumptions[i].tag = "Eq"
                    /\ \/ assumptions[i].parameters = goal.parameters
                       \/ assumptions[i].parameters = <<goal.parameters[2], goal.parameters[1]>>
            THEN {Results({Constraints_none(env)})}
            ELSE {}
        eq ==
            IF goal.tag = "Eq"
            THEN {Results(prove_eq(env, goal.parameters[1], goal.parameters[2]))}
            ELSE {}
        \* a (negative) implementation, opened existentially, whose parameters
        \* equal the goal's and whose where-clauses hold
        candidates ==
            IF goal.tag = "IsImplemented" THEN decls.impls
            ELSE IF goal.tag = "NotImplemented" THEN decls.neg_impls
            ELSE << >>
        via_impl ==
            {LET b == candidates[i].binder
                 n == Len(b.kinds)
                 env1 == AddExistential(env, n, env.universe)
                 map == OpenMap(0, ExistentialVars(env, n))
             IN  prove_wc_list(decls, env1, assumptions,
                               Wcs_all_eq(goal.parameters,
                                          [k \in 1 .. Len(b.term.parameters) |->
                                              SubstParameter(map, b.term.parameters[k])])
                               \o Substitution_apply(map, b.term.where_clauses)) :
                i \in {j \in 1 .. Len(candidates) :
                        candidates[j].binder.term.trait_id = goal.trait_id}}
        \* coherence mode: an implementation another crate may add is not ruled out
        may_be_remote ==
            IF /\ goal.tag = "IsImplemented"
               /\ env.coherence_mode
               /\ goal.trait_id \notin decls.local_traits
            THEN {Results({Constraints(env, FALSE, Substitution_default)})}
            ELSE {}
        \* the side predicates
        is_local ==
            IF goal.tag = "IsLocal" /\ goal.trait_id \in decls.local_traits
            THEN {Results({Constraints_none(env)})}
            ELSE {}
        well_formed ==
            IF goal.tag = "WellFormedTraitRef" /\ goal.trait_id \in decls.traits
            THEN {Results({Constraints_none(env)})}
            ELSE {}
    IN  JoinResults(via_assumption \cup eq_assumed \cup eq \cup via_impl
                    \cup may_be_remote \cup is_local \cup well_formed)

(***************************************************************************)
(* Declarations (formality_rust::grammar, as coherence.rs uses them)       *)
(***************************************************************************)
\* TraitImpl / NegTraitImpl { binder: Binder<(trait_id, parameters, where_clauses)> }
TraitImpl(kinds, t, ps, wcs) ==
    [tag |-> "TraitImpl",
     binder |-> Binder(kinds, [trait_id |-> t, parameters |-> ps, where_clauses |-> wcs])]

NegTraitImpl(kinds, t, ps, wcs) ==
    [tag |-> "NegTraitImpl",
     binder |-> Binder(kinds, [trait_id |-> t, parameters |-> ps, where_clauses |-> wcs])]

\* impl Foo for u32 {}             impl Foo for bool {}
ImplFooU32 == TraitImpl(<< >>, "Foo", <<U32>>, << >>)
ImplFooBool == TraitImpl(<< >>, "Foo", <<Bool>>, << >>)
\* impl<T> Foo for T {}            impl<T> Foo for T where T: Bound {}
ImplFooT == TraitImpl(<<"Ty">>, "Foo", <<Bound0(0)>>, << >>)
ImplFooTWhereBound ==
    TraitImpl(<<"Ty">>, "Foo", <<Bound0(0)>>, <<IsImplemented("Bound", <<Bound0(0)>>)>>)
\* impl Bound for u32 {}           impl !Bound for u32 {}       impl !Foo for bool {}
ImplBoundU32 == TraitImpl(<< >>, "Bound", <<U32>>, << >>)
NegImplBoundU32 == NegTraitImpl(<< >>, "Bound", <<U32>>, << >>)
NegImplFooBool == NegTraitImpl(<< >>, "Foo", <<Bool>>, << >>)

\* Decls: what the solver may look up.
Decls(impls, neg_impls, local_traits, traits) ==
    [impls |-> impls, neg_impls |-> neg_impls, local_traits |-> local_traits, traits |-> traits]

(***************************************************************************)
(* Calls of prove_wc_list                                                  *)
(***************************************************************************)
MaxGoals == 2
MaxAssumptions == 1
MaxInference == 2

ProveDecls ==
    {Decls(<< >>, << >>, {}, {"Bound"}),
     Decls(<<ImplBoundU32>>, << >>, {"Bound"}, {"Bound"}),
     Decls(<<ImplBoundU32>>, <<NegImplBoundU32>>, {}, {"Bound"})}

ProveEnvs ==
    {with_coherence_mode(AddExistential(e, k, u), m) :
        e \in {Env_default, AddUniversal(Env_default, 1)},
        k \in 0 .. MaxInference,
        u \in 0 .. 1,
        m \in BOOLEAN}

ProveParameters(env) == {U32, Bool} \cup EnvVariables(env)

ProveGoals(env) ==
    {Eq(a, b) : a, b \in ProveParameters(env)}
    \cup {IsImplemented("Bound", <<a>>) : a \in ProveParameters(env)}

ProveAssumptions(env) ==
    {IsImplemented("Bound", <<a>>) : a \in ProveParameters(env)}
    \cup {Eq(a, U32) : a \in {v \in EnvVariables(env) : v.tag = "PlaceholderVar"}}

ProveIdle == /\ pw_decls = Decls(<< >>, << >>, {}, {})
             /\ pw_env = Env_default
             /\ pw_assumptions = << >>
             /\ pw_goal = << >>
             /\ pw_pc = "idle"
             /\ pw_out = Results({})

\* A caller of prove_wc_list passes terms its Env encloses.
ProveInit == /\ pw_decls \in ProveDecls
             /\ pw_env \in ProveEnvs
             /\ pw_assumptions \in SeqsUpTo(ProveAssumptions(pw_env), MaxAssumptions)
             /\ pw_goal \in SeqsUpTo(ProveGoals(pw_env), MaxGoals)
             /\ pw_pc = "call"
             /\ pw_out = Results({})

CallProveWcList ==
    /\ pw_pc = "call"
    /\ pw_out' = prove_wc_list(pw_decls, pw_env, pw_assumptions, pw_goal)
    /\ pw_pc' = "returned"
    /\ UNCHANGED <<pw_decls, pw_env, pw_assumptions, pw_goal, var_vars, reach_vars, coh_vars>>

ProveNext == CallProveWcList

(***************************************************************************)
(* The program checked (formality_rust::grammar, spec section 6)           *)
(***************************************************************************)
\* AssociatedTy { id, binder: Binder<(ensures, where_clauses)> }
AssociatedTy(id, kinds, wcs) ==
    [tag |-> "AssociatedTy", id |-> id,
     binder |-> Binder(kinds, [ensures |-> << >>, where_clauses |-> wcs])]

\* Trait { id, binder: Binder<(where_clauses, trait_items)> }, bound over Self.
Trait(id, wcs, trait_items) ==
    [tag |-> "Trait", id |-> id,
     binder |-> Binder(<<"Ty">>, [where_clauses |-> wcs, trait_items |-> trait_items])]

\* trait Bound {}
TraitBound == Trait("Bound", << >>, << >>)
\* trait Foo where Self: Bound { type Assoc<U> where U: Bound, Self: Bound; }
TraitFoo ==
    Trait("Foo", <<IsImplemented("Bound", <<Bound0(0)>>)>>,
          <<AssociatedTy("Assoc", <<"Ty">>,
                         <<IsImplemented("Bound", <<Bound0(0)>>),
                           IsImplemented("Bound", <<Bound1(0)>>)>>)>>)

Items == {TraitFoo, TraitBound, ImplFooU32, ImplFooBool, ImplFooT, ImplFooTWhereBound,
          ImplBoundU32, NegImplBoundU32, NegImplFooBool}

MaxItems == 3
MaxOtherItems == 1

\* items.iter().downcasted(): the items of one kind, in order.
downcasted(items, tag) == SelectSeq(items, LAMBDA it : it.tag = tag)

\* program.items_from_all_crates()
items_from_all_crates == crates[1].items \o crates[2].items

current_crate == crates[current]
all_crate_impls == downcasted(items_from_all_crates, "TraitImpl")
current_crate_impls == downcasted(current_crate.items, "TraitImpl")
current_crate_neg_impls == downcasted(current_crate.items, "NegTraitImpl")

\* TraitImpl::trait_id
trait_id(impl) == impl.binder.term.trait_id

\* The declarations the solver sees while current_crate is checked.
program_decls ==
    Decls(all_crate_impls,
          downcasted(items_from_all_crates, "NegTraitImpl"),
          {t.id : t \in Range(downcasted(current_crate.items, "Trait"))},
          {t.id : t \in Range(downcasted(items_from_all_crates, "Trait"))})

(***************************************************************************)
(* Opening binders, prove_goal, prove_not_goal                             *)
(***************************************************************************)
\* env.instantiate_universally(&binder): the Env with the new placeholders and
\* the opened term.  For the binder of an implementation:
instantiate_universally(env, binder) ==
    LET map == OpenMap(0, UniversalVars(env, Len(binder.kinds)))
    IN  [env |-> AddUniversal(env, Len(binder.kinds)),
         term |-> [trait_id |-> binder.term.trait_id,
                   parameters |-> [k \in 1 .. Len(binder.term.parameters) |->
                                      SubstParameter(map, binder.term.parameters[k])],
                   where_clauses |-> Substitution_apply(map, binder.term.where_clauses)]]

\* ... of a trait: the variables of its binder lie one level further out inside
\* the binders of its items.
instantiate_universally_trait(env, binder) ==
    LET fresh == UniversalVars(env, Len(binder.kinds))
    IN  [env |-> AddUniversal(env, Len(binder.kinds)),
         term |-> [where_clauses |-> Substitution_apply(OpenMap(0, fresh), binder.term.where_clauses),
                   trait_items |->
                      [k \in 1 .. Len(binder.term.trait_items) |->
                          [binder.term.trait_items[k] EXCEPT
                              !.binder.term.where_clauses =
                                  Substitution_apply(OpenMap(1, fresh), @)]]]]

\* ... of an associated type.
instantiate_universally_assoc(env, binder) ==
    LET map == OpenMap(0, UniversalVars(env, Len(binder.kinds)))
    IN  [env |-> AddUniversal(env, Len(binder.kinds)),
         term |-> [ensures |-> binder.term.ensures,
                   where_clauses |-> Substitution_apply(map, binder.term.where_clauses)]]

\* The outcome of a check: whether no assertion failed, and Ok or Err.
Outcome(ok, verdict) == [ok |-> ok, verdict |-> verdict]

\* prove_goal: Ok when the solver has a result that is known to hold.
prove_goal(decls, env, assumptions, goal) ==
    LET r == prove_wc_list(decls, env, assumptions, goal)
    IN  Outcome(r.ok, IF \E c \in r.cs : c.known_true THEN "Ok" ELSE "Err")

\* The variables of env (all universal) in the order of their allocation.
VarBefore(v, w) ==
    \/ v.universe.index < w.universe.index
    \/ v.universe.index = w.universe.index /\ v.index < w.index

\* forall P. not G is proved as not exists P. G: the map from the universal
\* variables of env to existential ones of the root universe.
UniversalToExistential(env) ==
    [v \in EnvVariables(env) |->
        InferenceVar(Cardinality({w \in EnvVariables(env) : VarBefore(w, v)}))]

ExistentialEnv(env) ==
    [universe |-> 0,
     variables |-> {[var |-> UniversalToExistential(env)[v], universe |-> 0] :
                        v \in EnvVariables(env)},
     coherence_mode |-> env.coherence_mode]

\* prove_not_goal: Ok exactly when the solver's result set is empty.
prove_not_goal(decls, env, assumptions, goal) ==
    LET r == prove_wc_list(decls, ExistentialEnv(env),
                           Substitution_apply(UniversalToExistential(env), assumptions),
                           Substitution_apply(UniversalToExistential(env), goal))
    IN  Outcome(r.ok, IF r.cs = {} THEN "Ok" ELSE "Err")

\* Wc::invert: the negation of a trait bound; nothing for another where-clause.
invert(wc) ==
    IF wc.tag = "IsImplemented" THEN <<NotImplemented(wc.trait_id, wc.parameters)>>
    ELSE << >>

RECURSIVE flat_map_invert(_)
flat_map_invert(wcs) ==
    IF wcs = << >> THEN << >> ELSE invert(Head(wcs)) \o flat_map_invert(Tail(wcs))

(***************************************************************************)
(* coherence.rs: orphan_check, orphan_check_neg, overlap_check             *)
(***************************************************************************)
\* The where-clauses are proved, with the locality of the trait reference assumed.
orphan_check_swapped(decls, impl_a) ==
    LET a == instantiate_universally(Env_default, impl_a.binder)
    IN  prove_goal(decls, with_coherence_mode(a.env, TRUE),
                   <<IsLocal(a.term.trait_id, a.term.parameters)>>,
                   a.term.where_clauses)

orphan_check(decls, impl_a) ==
    LET a == instantiate_universally(Env_default, impl_a.binder)
    IN  prove_goal(decls, with_coherence_mode(a.env, TRUE),
                   a.term.where_clauses,
                   <<IsLocal(a.term.trait_id, a.term.parameters)>>)

orphan_check_neg(decls, impl_a) ==
    LET a == instantiate_universally(Env_default, impl_a.binder)
    IN  prove_goal(decls, with_coherence_mode(a.env, TRUE),
                   a.term.where_clauses,
                   <<IsLocal(a.term.trait_id, a.term.parameters)>>)

\* inverted.iter().find(|wc| prove_goal(env, assumptions, wc).is_ok()), from
\* the k-th inverted where-clause on.
RECURSIVE find_inverted(_, _, _, _, _)
find_inverted(decls, env, assumptions, inverted, k) ==
    IF k > Len(inverted) THEN Outcome(TRUE, "Err")
    ELSE LET r == prove_goal(decls, env, assumptions, <<inverted[k]>>)
         IN  IF ~r.ok \/ r.verdict = "Ok" THEN r
             ELSE find_inverted(decls, env, assumptions, inverted, k + 1)

\* What overlap_check proves about impl_a and impl_b: both binders opened
\* universally in one Env, and the goal "parameters equal, where-clauses hold".
overlap_env(impl_a, impl_b) ==
    instantiate_universally(instantiate_universally(Env_default, impl_a.binder).env,
                            impl_b.binder).env

overlap_goal(impl_a, impl_b) ==
    LET a == instantiate_universally(Env_default, impl_a.binder)
        b == instantiate_universally(a.env, impl_b.binder)
    IN  Wcs_all_eq(a.term.parameters, b.term.parameters)
        \o a.term.where_clauses \o b.term.where_clauses

overlap_inverted(impl_a, impl_b) ==
    LET a == instantiate_universally(Env_default, impl_a.binder)
        b == instantiate_universally(a.env, impl_b.binder)
    IN  flat_map_invert(a.term.where_clauses \o b.term.where_clauses)

\* The inverted where-clauses are never tried.
overlap_check_without_inverted(decls, impl_a, impl_b) ==
    prove_not_goal(decls, with_coherence_mode(overlap_env(impl_a, impl_b), TRUE), << >>,
                   overlap_goal(impl_a, impl_b))

overlap_check(decls, impl_a, impl_b) ==
    LET env == overlap_env(impl_a, impl_b)
        goal == overlap_goal(impl_a, impl_b)
        not_goal == prove_not_goal(decls, with_coherence_mode(env, TRUE), << >>, goal)
    IN  IF ~not_goal.ok \/ not_goal.verdict = "Ok" THEN not_goal
        ELSE find_inverted(decls, env, goal, overlap_inverted(impl_a, impl_b), 1)

(***************************************************************************)
(* traits.rs: check_trait, check_associated_ty                             *)
(***************************************************************************)
\* prove_where_clauses_well_formed: the well-formedness goals of the
\* where-clauses are proved from the assumptions.
prove_where_clauses_well_formed(decls, env, assumptions, where_clauses) ==
    prove_goal(decls, env, assumptions,
               [k \in 1 .. Len(where_clauses) |->
                   WellFormedTraitRef(where_clauses[k].trait_id, where_clauses[k].parameters)])

\* The Env of the trait is passed on, not the one the binder was opened in.
check_associated_ty_trait_env(decls, trait_env, trait_where_clauses, associated_ty) ==
    LET opened == instantiate_universally_assoc(trait_env, associated_ty.binder)
    IN  prove_where_clauses_well_formed(decls, trait_env,
                                        trait_where_clauses \o opened.term.where_clauses,
                                        opened.term.where_clauses)

check_associated_ty(decls, trait_env, trait_where_clauses, associated_ty) ==
    LET opened == instantiate_universally_assoc(trait_env, associated_ty.binder)
    IN  prove_where_clauses_well_formed(decls, opened.env,
                                        trait_where_clauses \o opened.term.where_clauses,
                                        opened.term.where_clauses)

\* for trait_item in &trait_items { self.check_trait_item(..)?; }, from item k on
RECURSIVE check_trait_items(_, _, _, _, _)
check_trait_items(decls, env, where_clauses, trait_items, k) ==
    IF k > Len(trait_items) THEN Outcome(TRUE, "Ok")
    ELSE LET r == check_associated_ty(decls, env, where_clauses, trait_items[k])
         IN  IF ~r.ok \/ r.verdict = "Err" THEN r
             ELSE check_trait_items(decls, env, where_clauses, trait_items, k + 1)

check_trait(decls, t) ==
    LET opened == instantiate_universally_trait(Env_default, t.binder)
        wf == prove_where_clauses_well_formed(decls, opened.env,
                                              opened.term.where_clauses,
                                              opened.term.where_clauses)
    IN  IF ~wf.ok \/ wf.verdict = "Err" THEN wf
        ELSE check_trait_items(decls, opened.env, opened.term.where_clauses,
                               opened.term.trait_items, 1)

(***************************************************************************)
(* coherence.rs: check_coherence, one check per step                       *)
(***************************************************************************)
\* The two lists are paired position by position.
zip(as, bs) ==
    [k \in 1 .. (IF Len(as) < Len(bs) THEN Len(as) ELSE Len(bs)) |-> <<as[k], bs[k]>>]

\* for (impl_a, impl_b) in current_crate_impls.iter().cartesian_product(&all_crate_impls)
\*     .filter(impl_a != impl_b).filter(impl_a.trait_id() == impl_b.trait_id())
cartesian_product(as, bs) ==
    [k \in 1 .. Len(as) * Len(bs) |->
        <<as[((k - 1) \div Len(bs)) + 1], bs[((k - 1) % Len(bs)) + 1]>>]

overlap_pairs ==
    SelectSeq(SelectSeq(cartesian_product(current_crate_impls, all_crate_impls),
                        LAMBDA pr : pr[1] # pr[2]),
              LAMBDA pr : trait_id(pr[1]) = trait_id(pr[2]))

NoResult == [status |-> "none", error |-> "", impls |-> << >>]
Ok == [status |-> "Ok", error |-> "", impls |-> << >>]
Err(error, impls) == [status |-> "Err", error |-> error, impls |-> impls]
Panicked == [status |-> "panic", error |-> "", impls |-> << >>]

LogEntry(check, impls, verdict) == [check |-> check, impls |-> impls, verdict |-> verdict]

\* The number of iterations of each loop of check_coherence, and their order.
LoopLength(phase) ==
    CASE phase = "orphan_check" -> Len(current_crate_impls)
      [] phase = "orphan_check_neg" -> Len(current_crate_neg_impls)
      [] phase = "duplicate" -> Len(current_crate_impls)
      [] phase = "overlap_check" -> Len(overlap_pairs)

LoopAfter(phase) ==
    CASE phase = "orphan_check" -> "orphan_check_neg"
      [] phase = "orphan_check_neg" -> "duplicate"
      [] phase = "duplicate" -> "overlap_check"
      [] phase = "overlap_check" -> "done"

\* Where control is once iteration i of loop `phase` is due: in that iteration,
\* or in the first iteration of the next loop that has one, or at Ok(()).
RECURSIVE control_at(_, _)
control_at(phase, i) ==
    IF phase = "done" THEN <<"done", 0>>
    ELSE IF i <= LoopLength(phase) THEN <<phase, i>>
    ELSE control_at(LoopAfter(phase), 1)

\* The failure of an orphan check is dropped and the loops go on.
Returned_orphan_ignored(check, impls, outcome, error) ==
    /\ asserted' = (asserted /\ outcome.ok)
    /\ coh_log' = Append(coh_log, LogEntry(check, impls, outcome.verdict))
    /\ IF outcome.verdict = "Err" /\ check # "orphan_check"
       THEN /\ coh_pc' = "done"
            /\ coh_i' = 0
            /\ coh_result' = Err(error, impls)
       ELSE /\ coh_pc' = control_at(check, coh_i + 1)[1]
            /\ coh_i' = control_at(check, coh_i + 1)[2]
            /\ coh_result' = IF control_at(check, coh_i + 1)[1] = "done"
                             THEN Ok ELSE coh_result
    /\ first_verdict' = IF first_verdict = "none" /\ coh_pc' = "done"
                        THEN coh_result'.status ELSE first_verdict
    /\ UNCHANGED <<crates, current, trait_result, var_vars, reach_vars, prove_vars>>

\* A check returned: `?` and bail! return its failure, otherwise the loops go on.
Returned(check, impls, outcome, error) ==
    /\ asserted' = (asserted /\ outcome.ok)
    /\ IF ~outcome.ok
       THEN /\ coh_pc' = "done"
            /\ coh_i' = 0
            /\ coh_result' = Panicked
            /\ coh_log' = coh_log
       ELSE /\ coh_log' = Append(coh_log, LogEntry(check, impls, outcome.verdict))
            /\ IF outcome.verdict = "Err"
               THEN /\ coh_pc' = "done"
                    /\ coh_i' = 0
                    /\ coh_result' = Err(error, impls)
               ELSE /\ coh_pc' = control_at(check, coh_i + 1)[1]
                    /\ coh_i' = control_at(check, coh_i + 1)[2]
                    /\ coh_result' = IF control_at(check, coh_i + 1)[1] = "done"
                                     THEN Ok ELSE coh_result
    /\ first_verdict' = IF first_verdict = "none" /\ coh_pc' = "done"
                        THEN coh_result'.status ELSE first_verdict
    /\ UNCHANGED <<crates, current, trait_result, var_vars, reach_vars, prove_vars>>

\* check_coherence is entered: the three lists are collected.
StartCheckCoherence ==
    /\ coh_pc = "ready"
    /\ coh_pc' = control_at("orphan_check", 1)[1]
    /\ coh_i' = control_at("orphan_check", 1)[2]
    /\ coh_result' = IF control_at("orphan_check", 1)[1] = "done" THEN Ok ELSE coh_result
    /\ first_verdict' = IF first_verdict = "none" /\ coh_pc' = "done"
                        THEN coh_result'.status ELSE first_verdict
    /\ UNCHANGED <<crates, current, coh_log, asserted, trait_result,
                   var_vars, reach_vars, prove_vars>>

OrphanCheck ==
    /\ coh_pc = "orphan_check"
    /\ LET impl_a == current_crate_impls[coh_i]
       IN  Returned("orphan_check", <<impl_a>>, orphan_check(program_decls, impl_a),
                    "orphan_check")

OrphanCheckNeg ==
    /\ coh_pc = "orphan_check_neg"
    /\ LET impl_a == current_crate_neg_impls[coh_i]
       IN  Returned("orphan_check_neg", <<impl_a>>, orphan_check_neg(program_decls, impl_a),
                    "orphan_check_neg")

\* The slice searched starts one element late.
duplicate_check_late(impls, i) ==
    Outcome(TRUE, IF \E j \in i + 2 .. Len(impls) : impls[j] = impls[i] THEN "Err" ELSE "Ok")

\* if current_crate_impls[i + 1..].contains(impl_a) { bail!("duplicate impl ..") }
duplicate_check(impls, i) ==
    Outcome(TRUE, IF \E j \in i + 1 .. Len(impls) : impls[j] = impls[i] THEN "Err" ELSE "Ok")

DuplicateCheck ==
    /\ coh_pc = "duplicate"
    /\ Returned("duplicate", <<current_crate_impls[coh_i]>>,
                duplicate_check(current_crate_impls, coh_i),
                "duplicate impl in current crate")

OverlapCheck ==
    /\ coh_pc = "overlap_check"
    /\ LET pr == overlap_pairs[coh_i]
       IN  Returned("overlap_check", pr, overlap_check(program_decls, pr[1], pr[2]),
                    "impls may overlap")

\* check_trait on a trait of the current crate.
CheckTrait ==
    /\ coh_pc = "ready"
    /\ \E k \in 1 .. Len(downcasted(current_crate.items, "Trait")) :
          LET t == downcasted(current_crate.items, "Trait")[k]
              r == check_trait(program_decls, t)
          IN  /\ trait_result' = [trait |-> t.id, status |-> IF r.ok THEN r.verdict ELSE "panic"]
              /\ trait_result' # trait_result
              /\ asserted' = (asserted /\ r.ok)
    /\ UNCHANGED <<crates, current, coh_pc, coh_i, coh_result, coh_log, first_verdict,
                   var_vars, reach_vars, prove_vars>>

\* The same program is handed over again with two neighbouring items of one
\* crate exchanged, or with its two crates exchanged, and checked afresh.
swap(items, j) ==
    [k \in 1 .. Len(items) |->
        IF k = j THEN items[j + 1] ELSE IF k = j + 1 THEN items[j] ELSE items[k]]

Reorder ==
    /\ coh_pc = "done"
    /\ coh_result.status \in {"Ok", "Err"}
    /\ \/ \E c \in 1 .. 2 : \E j \in 1 .. Len(crates[c].items) - 1 :
            /\ crates' = [crates EXCEPT ![c].items = swap(@, j)]
            /\ current' = current
       \/ /\ crates' = <<crates[2], crates[1]>>
          /\ current' = 3 - current
    /\ coh_pc' = "ready"
    /\ coh_i' = 0
    /\ coh_result' = NoResult
    /\ coh_log' = << >>
    /\ trait_result' = [trait |-> "", status |-> "none"]
    /\ UNCHANGED <<asserted, first_verdict, var_vars, reach_vars, prove_vars>>

Crate(id, items) == [id |-> id, items |-> items]

CohIdle == /\ crates = <<Crate("other", << >>), Crate("current", << >>)>>
           /\ current = 2
           /\ coh_pc = "idle"
           /\ coh_i = 0
           /\ coh_result = NoResult
           /\ coh_log = << >>
           /\ asserted = TRUE
           /\ trait_result = [trait |-> "", status |-> "none"]
           /\ first_verdict = "none"

CohInit == /\ crates \in {<<Crate("other", o), Crate("current", c)>> :
                            o \in SeqsUpTo(Items, MaxOtherItems),
                            c \in SeqsUpTo(Items, MaxItems)}
           /\ current = 2
           /\ coh_pc = "ready"
           /\ coh_i = 0
           /\ coh_result = NoResult
           /\ coh_log = << >>
           /\ asserted = TRUE
           /\ trait_result = [trait |-> "", status |-> "none"]
           /\ first_verdict = "none"

CohNext == \/ StartCheckCoherence
           \/ OrphanCheck
           \/ OrphanCheckNeg
           \/ DuplicateCheck
           \/ OverlapCheck
           \/ CheckTrait
           \/ Reorder

InitVar == VarInit /\ ReachIdle /\ ProveIdle /\ CohIdle
InitReach == ReachInit /\ VarIdle /\ ProveIdle /\ CohIdle
InitProve == ProveInit /\ VarIdle /\ ReachIdle /\ CohIdle
InitCoherence == CohInit /\ VarIdle /\ ReachIdle /\ ProveIdle

SpecVar == InitVar /\ [][VarNext]_vars
SpecReach == InitReach /\ [][ReachNext]_vars
SpecProve == InitProve /\ [][ProveNext]_vars
SpecCoherence == InitCoherence /\ [][CohNext]_vars

(***************************************************************************)
(* Properties                                                              *)
(***************************************************************************)

\* n is reached from s by a path of exactly k >= 1 edges of g.
RECURSIVE PathOfLength(_, _, _, _)
PathOfLength(g, s, n, k) ==
    IF k = 1 THEN <<s, n>> \in Range(g)
    ELSE \E m \in Nodes : <<s, m>> \in Range(g) /\ PathOfLength(g, m, n, k - 1)

ReachableFrom(g, s) ==
    {n \in Nodes : \E k \in 1 .. Cardinality(Nodes) : PathOfLength(g, s, n, k)}

\* C8: for every edge list (cycles included) and start node the evaluation of
\* TransitiveReachability finishes (no more rounds than the table has room for,
\* and a step is possible until it has returned) and returns exactly the set of
\* nodes reachable from start by a path of one or more edges.
C8_ReachabilityExact ==
    /\ reach_pc = "done" => judgment_result = ReachableFrom(edges, start)
    /\ rounds <= Cardinality(Nodes) * Cardinality(Nodes)
    /\ reach_pc = "eval" => ENABLED (EvalRound \/ EvalReturn)

\* The graph of the test: a cycle 0 -> 1 -> 2 -> 0 and 2 -> 3, from 0.
C8_Witness ==
    /\ reach_pc = "done"
    /\ edges = <<<<0, 1>>, <<1, 2>>, <<2, 0>>, <<2, 3>>>>
    /\ start = 0
    /\ judgment_result = {0, 1, 2, 3}

\* C4: prove_wc_list proves a non-empty goal list left to right: its results are
\* those of proving the first goal and then, for each result c, the remaining
\* goals with c's substitution applied to them, in c's Env; under every result
\* each goal of the list holds by itself; [X = u32, X = u32] gives results that
\* all bind X to u32, and [X = u32, X = bool] gives none.
C4_GoalsSolvedLeftToRight ==
    pw_pc = "returned" /\ pw_goal # << >> =>
        LET X == InferenceVar(0)
            first == prove_wc(pw_decls, pw_env, pw_assumptions, Head(pw_goal)).cs
            rest(c) == prove_wc_list(pw_decls, c.env,
                                     Substitution_apply(c.substitution, pw_assumptions),
                                     Substitution_apply(c.substitution, Tail(pw_goal))).cs
        IN  /\ pw_out.cs =
                    UNION {{Constraints(c2.env, c.known_true /\ c2.known_true,
                                        Substitution_compose(c.substitution, c2.substitution)) :
                                c2 \in rest(c)} : c \in first}
            /\ \A r \in pw_out.cs : \A i \in 1 .. Len(pw_goal) :
                    prove_wc(pw_decls, r.env,
                             Substitution_apply(r.substitution, pw_assumptions),
                             Substitution_apply_wc(r.substitution, pw_goal[i])).cs # {}
            /\ pw_goal = <<Eq(X, U32), Eq(X, U32)>> =>
                    /\ pw_out.cs # {}
                    /\ \A r \in pw_out.cs : X \in DOMAIN r.substitution /\ r.substitution[X] = U32
            /\ pw_goal = <<Eq(X, U32), Eq(X, Bool)>> => pw_out.cs = {}

\* [X = u32, X = u32] has been solved, with a result that binds X.
C4_Witness ==
    /\ pw_pc = "returned"
    /\ pw_goal = <<Eq(InferenceVar(0), U32), Eq(InferenceVar(0), U32)>>
    /\ pw_assumptions = << >>
    /\ \E r \in pw_out.cs : r.substitution = [v \in {InferenceVar(0)} |-> U32]

C10_IsFreeAsDocumented ==
    var_op = "is_free" =>
        var_ret = Some(\/ variable.tag \in {"PlaceholderVar", "InferenceVar"}
                       \/ variable.tag = "BoundVar" /\ variable.debruijn = None)

\* A bound variable with a de Bruijn index of Some.
BoundAtDepth(v) == v.tag = "BoundVar" /\ v.debruijn # None

\* C11: shift_out of the result of shift_in gives back Some of the receiver;
\* shift_in and shift_out return the receiver unchanged unless it is a bound
\* variable with a de Bruijn index of Some, of which they change the index by
\* one and nothing else; shift_out returns None exactly for a bound variable
\* at de Bruijn index 0.
C11_ShiftRoundTrip ==
    /\ var_op = "shift_in" =>
          /\ var_ret = Some(variable)
          /\ shift_out(variable) = Some(var_arg)
          /\ IF BoundAtDepth(var_arg)
             THEN variable = BoundVar(Some(DebruijnIndex(var_arg.debruijn[1].index + 1)),
                                      var_arg.var_index)
             ELSE variable = var_arg
    /\ var_op = "shift_out" =>
          /\ var_ret = None <=>
                 (BoundAtDepth(var_arg) /\ var_arg.debruijn[1] = DebruijnIndex(0))
          /\ var_ret # None =>
                 IF BoundAtDepth(var_arg)
                 THEN var_ret = Some(BoundVar(Some(DebruijnIndex(var_arg.debruijn[1].index - 1)),
                                              var_arg.var_index))
                 ELSE var_ret = Some(var_arg)

\* A bound variable at the innermost binder has been shifted in.
C11_Witness ==
    /\ var_op = "shift_in"
    /\ var_arg = BoundVar(Some(DebruijnIndex(0)), VarIndex(1))
    /\ variable = BoundVar(Some(DebruijnIndex(1)), VarIndex(1))
(***************************************************************************)
(* Properties of check_coherence and check_trait                           *)
(***************************************************************************)
\* (a): in coherence mode, with the variables of both impls existential, the
\* goal [parameters equal, where-clauses of A, where-clauses of B] has no result.
OverlapRefuted(A, B) ==
    LET a == instantiate_universally(Env_default, A.binder)
        b == instantiate_universally(a.env, B.binder)
        goal == Wcs_all_eq(a.term.parameters, b.term.parameters)
                \o a.term.where_clauses \o b.term.where_clauses
        env == with_coherence_mode(b.env, TRUE)
    IN  prove_wc_list(program_decls, ExistentialEnv(env), << >>,
                      Substitution_apply(UniversalToExistential(env), goal)).cs = {}

\* (b): the negation of a trait bound of A or B is proved from the assumptions
\* [parameters equal, where-clauses of A, where-clauses of B].
OverlapContradicted(A, B) ==
    LET a == instantiate_universally(Env_default, A.binder)
        b == instantiate_universally(a.env, B.binder)
        assumptions == Wcs_all_eq(a.term.parameters, b.term.parameters)
                       \o a.term.where_clauses \o b.term.where_clauses
    IN  \E wc \in Range(a.term.where_clauses \o b.term.where_clauses) :
            /\ wc.tag = "IsImplemented"
            /\ \E c \in prove_wc_list(program_decls, b.env, assumptions,
                                      <<NotImplemented(wc.trait_id, wc.parameters)>>).cs :
                   c.known_true

\* C1: an overlap_check of (A, B) that has returned gave Ok exactly when (a) the
\* solver in coherence mode has no result for the goal [parameters pairwise
\* equal, where-clauses of A, where-clauses of B] under no assumptions, or (b)
\* some inverted where-clause of A or B is proved under these as assumptions;
\* otherwise check_coherence has failed with "impls may overlap" naming A and B.
C1_OverlapCheckVerdict ==
    \A k \in 1 .. Len(coh_log) :
        coh_log[k].check = "overlap_check" =>
            LET A == coh_log[k].impls[1]
                B == coh_log[k].impls[2]
            IN  /\ coh_log[k].verdict = "Ok" <=>
                       (OverlapRefuted(A, B) \/ OverlapContradicted(A, B))
                /\ coh_log[k].verdict = "Err" =>
                       coh_result = Err("impls may overlap", <<A, B>>)

\* A pair has been accepted by (b) alone, and a pair has been reported.
C1_Witness ==
    /\ coh_pc = "done"
    /\ \E k \in 1 .. Len(coh_log) :
          /\ coh_log[k].check = "overlap_check"
          /\ coh_log[k].verdict = "Ok"
          /\ ~OverlapRefuted(coh_log[k].impls[1], coh_log[k].impls[2])
          /\ OverlapContradicted(coh_log[k].impls[1], coh_log[k].impls[2])

\* The checked crate has a positive or negative impl of a trait it does not declare.
NonLocalImpl ==
    \E it \in Range(crates[current].items) :
        /\ it.tag \in {"TraitImpl", "NegTraitImpl"}
        /\ \A t \in Range(crates[current].items) :
              t.tag = "Trait" => t.id # it.binder.term.trait_id

OrphanErrors == {"orphan_check", "orphan_check_neg"}

\* C2: when the checked crate has a positive or negative impl whose trait
\* reference is not local, check_coherence fails with an orphan-check error,
\* whatever the where-clauses of that impl are.
C2_NonLocalImplIsOrphan ==
    coh_pc = "done" /\ NonLocalImpl =>
        coh_result.status = "Err" /\ coh_result.error \in OrphanErrors

\* An impl with a where-clause that nothing proves has failed its orphan check.
C2_Witness ==
    /\ coh_pc = "done"
    /\ coh_result = Err("orphan_check", <<ImplFooTWhereBound>>)
    /\ program_decls.impls = <<ImplFooTWhereBound>>

\* The checked crate lists one positive impl twice.
DuplicateImpls ==
    \E i, j \in 1 .. Len(crates[current].items) :
        /\ i < j
        /\ crates[current].items[i] = crates[current].items[j]
        /\ crates[current].items[i].tag = "TraitImpl"

C6_VerdictUnderReordering ==
    coh_pc = "done" => coh_result.status = first_verdict

\* After the crates have been exchanged a pair of overlapping impls is reported.
C6_Witness ==
    /\ coh_pc = "done"
    /\ current = 1
    /\ first_verdict = "Err"
    /\ coh_result.error = "impls may overlap"

\* The checks of check_coherence in the order it runs them.
ChecksInOrder ==
    [k \in 1 .. Len(current_crate_impls) |-> <<"orphan_check", <<current_crate_impls[k]>>>>]
    \o [k \in 1 .. Len(current_crate_neg_impls) |->
            <<"orphan_check_neg", <<current_crate_neg_impls[k]>>>>]
    \o [k \in 1 .. Len(current_crate_impls) |-> <<"duplicate", <<current_crate_impls[k]>>>>]
    \o [k \in 1 .. Len(overlap_pairs) |-> <<"overlap_check", overlap_pairs[k]>>]

ChecksRun == [k \in 1 .. Len(coh_log) |-> <<coh_log[k].check, coh_log[k].impls>>]

ErrorOf(check) ==
    IF check = "duplicate" THEN "duplicate impl in current crate"
    ELSE IF check = "overlap_check" THEN "impls may overlap"
    ELSE check

\* C7: the checks that have run are an initial part of: the orphan checks of
\* the positive impls, those of the negative impls, the duplicate checks, the
\* overlap checks; none but the last of them has failed; check_coherence has
\* returned a failure exactly when the last check run failed, and that failure
\* is the one returned; it has returned Ok only after all checks ran and passed.
C7_AbortAtFirstViolation ==
    /\ Len(ChecksRun) <= Len(ChecksInOrder)
    /\ ChecksRun = SubSeq(ChecksInOrder, 1, Len(ChecksRun))
    /\ \A k \in 1 .. Len(coh_log) - 1 : coh_log[k].verdict = "Ok"
    /\ coh_pc # "done" =>
          /\ coh_result = NoResult
          /\ \A k \in 1 .. Len(coh_log) : coh_log[k].verdict = "Ok"
    /\ coh_pc = "done" =>
          \/ /\ coh_result = Ok
             /\ ChecksRun = ChecksInOrder
             /\ \A k \in 1 .. Len(coh_log) : coh_log[k].verdict = "Ok"
          \/ /\ coh_log # << >>
             /\ coh_log[Len(coh_log)].verdict = "Err"
             /\ coh_result = Err(ErrorOf(coh_log[Len(coh_log)].check),
                                 coh_log[Len(coh_log)].impls)

\* A duplicate was found after the orphan checks passed, with the overlap
\* checks still to run.
C7_Witness ==
    /\ coh_pc = "done"
    /\ coh_result.error = "duplicate impl in current crate"
    /\ Len(coh_log) >= 3
    /\ Len(ChecksInOrder) > Len(coh_log)

\* C9: no call of prove_wc_list made by the checks, nor any of the calls made
\* from within it, has failed the assertion env.encloses((assumptions, goal)).
C9_EntryAssertionHolds ==
    /\ asserted
    /\ coh_result.status # "panic"
    /\ trait_result.status # "panic"

\* An associated type was checked and an overlap check proved several goals.
C9_Witness ==
    /\ coh_pc = "done"
    /\ trait_result = [trait |-> "Foo", status |-> "Ok"]
    /\ \E k \in 1 .. Len(coh_log) :
          /\ coh_log[k].check = "overlap_check"
          /\ Len(overlap_goal(coh_log[k].impls[1], coh_log[k].impls[2])) >= 2

\* (A, B) went through overlap_check and was shown not to overlap.
ShownNotToOverlap(A, B) ==
    \E k \in 1 .. Len(coh_log) :
        coh_log[k] = LogEntry("overlap_check", <<A, B>>, "Ok")

\* C12: when check_coherence has returned Ok, every impl A of the checked crate
\* and every other impl item B of the same trait, in that crate or in another
\* one (another item: another crate or another place in the crate), went
\* through overlap_check as the pair (A, B) and was shown not to overlap.
C12_EveryPairChecked ==
    coh_pc = "done" /\ coh_result = Ok =>
        \A i \in 1 .. Len(crates[current].items) :
            \A c \in 1 .. 2 : \A j \in 1 .. Len(crates[c].items) :
                LET A == crates[current].items[i]
                    B == crates[c].items[j]
                IN  /\ A.tag = "TraitImpl"
                    /\ B.tag = "TraitImpl"
                    /\ <<c, j>> # <<current, i>>
                    /\ trait_id(A) = trait_id(B)
                    => ShownNotToOverlap(A, B)
====
